---- MODULE Spec2Model ----
(***************************************************************************)
(* Twin-error Bayesian network of the match-sampling simulation            *)
(* (dgp.py), the driver's calls into it (main.py) and the IPW estimator    *)
(* (estimators.py).                                                        *)
(*                                                                         *)
(* Probabilities are exact rationals <<n, d>> in lowest terms, d > 0: the  *)
(* arithmetic of dgp.py is modelled over the rationals, not over IEEE      *)
(* doubles.                                                                *)
(***************************************************************************)
EXTENDS Integers, Sequences, FiniteSets, TLC

VARIABLES graph, confounding_strength, cpds, error_rate, model, caller, raised,
          df, est

vars == <<graph, confounding_strength, cpds, error_rate, model, caller, raised,
          df, est>>

dgpVars == <<graph, confounding_strength, cpds, error_rate, model, caller, raised>>
estVars == <<df, est>>

-----------------------------------------------------------------------------
(* Bounds of the explored input grids.                                     *)

\* confounding_strength ranges over k / SDen, -MaxS <= k <= MaxS
SDen == 10
MaxS == 6
\* error_rate ranges over k / EDen, -1 <= k <= EDen + 1
EDen == 4
\* largest number of rows of a sample handed to ipw
MaxRows == 6

-----------------------------------------------------------------------------
(* Rational arithmetic: the float expressions of dgp.py and estimators.py  *)

Abs(x) == IF x < 0 THEN -x ELSE x

RECURSIVE Gcd(_, _)
Gcd(a, b) == IF b = 0 THEN a ELSE Gcd(b, a % b)

\* n / d in lowest terms with a positive denominator (d # 0)
Rat(n, d) ==
    LET g == Gcd(Abs(n), Abs(d))
        s == IF d < 0 THEN -1 ELSE 1
    IN  <<s * (n \div g), s * (d \div g)>>

Zero == <<0, 1>>
One == <<1, 1>>

RAdd(p, q) ==
    LET g == Gcd(p[2], q[2])
    IN  Rat(p[1] * (q[2] \div g) + q[1] * (p[2] \div g), p[2] * (q[2] \div g))

RNeg(p) == <<-p[1], p[2]>>

RSub(p, q) == RAdd(p, RNeg(q))

RMul(p, q) ==
    LET g1 == Gcd(Abs(p[1]), q[2])
        g2 == Gcd(Abs(q[1]), p[2])
    IN  Rat((p[1] \div g1) * (q[1] \div g2), (p[2] \div g2) * (q[2] \div g1))

\* p / q, q # 0
RDiv(p, q) == RMul(p, Rat(q[2], q[1]))

RLe(p, q) == p[1] * q[2] <= q[1] * p[2]

IsProbability(p) == RLe(Zero, p) /\ RLe(p, One)

-----------------------------------------------------------------------------
(* TabularCPD: variable, evidence list, values[state + 1][column + 1]      *)

TabularCPD(variable, values, evidence) ==
    [variable |-> variable, values |-> values, evidence |-> evidence]

get_values(cpd) == cpd.values

\* column of an evidence assignment: the first evidence variable varies slowest
RECURSIVE ColumnIndex(_, _, _)
ColumnIndex(evidence, assn, i) ==
    IF i > Len(evidence) THEN 0
    ELSE assn[evidence[i]] * (2 ^ (Len(evidence) - i))
         + ColumnIndex(evidence, assn, i + 1)

\* P(variable = val | evidence as assigned in assn)
Prob(cpd, val, assn) ==
    cpd.values[val + 1][ColumnIndex(cpd.evidence, assn, 1) + 1]

NoCpds == [n \in {} |-> Zero]

-----------------------------------------------------------------------------
(* dgp.create_twin_error_graph                                             *)

create_twin_error_graph ==
    << <<"C", "A">>, <<"C", "Y">>, <<"A", "Y">>,
       <<"C1", "A1">>, <<"C1", "Y1">>, <<"A1", "Y1">>,
       <<"C1", "C_obs">>, <<"C", "C_obs">>,
       <<"A", "A_obs">>, <<"A1", "A_obs">>,
       <<"Y", "Y_obs">>, <<"Y1", "Y_obs">>,
       <<"E", "A_obs">>, <<"E", "C_obs">>, <<"E", "Y_obs">> >>

-----------------------------------------------------------------------------
(* dgp.create_statins_stroke_cpds                                          *)

po_Y_1 == Rat(24, 1000)
po_Y_0 == Rat(3, 100)
pC == Rat(1, 2)
pA1_C0 == Rat(2, 10)
pA1_C1 == Rat(3, 10)

pY1_A1C0(s) == RMul(po_Y_1, RAdd(One, RDiv(s, pC)))
\* mutant: the C=1 stratum is perturbed with the sign of the C=0 stratum
pY1_A1C1_same_sign(s) == RMul(po_Y_1, RAdd(One, RDiv(s, RSub(One, pC))))

pY1_A1C1(s) == RMul(po_Y_1, RSub(One, RDiv(s, RSub(One, pC))))
pY1_A0C0(s) == RMul(po_Y_0, RAdd(One, RDiv(s, pC)))
pY1_A0C1(s) == RMul(po_Y_0, RSub(One, RDiv(s, RSub(One, pC))))

cpd_c == TabularCPD("C", << <<pC>>, <<RSub(One, pC)>> >>, <<>>)

cpd_a ==
    TabularCPD("A",
               << <<RSub(One, pA1_C0), RSub(One, pA1_C1)>>,
                  <<pA1_C0, pA1_C1>> >>,
               <<"C">>)

\* mutant: the first row lists the A=1 columns before the A=0 columns
cpd_y_misordered(s) ==
    [variable |-> "Y",
     values |-> << <<RSub(One, pY1_A1C0(s)), RSub(One, pY1_A1C1(s)),
                     RSub(One, pY1_A0C0(s)), RSub(One, pY1_A0C1(s))>>,
                   <<pY1_A0C0(s), pY1_A0C1(s), pY1_A1C0(s), pY1_A1C1(s)>> >>,
     evidence |-> <<"A", "C">>]

cpd_y(s) ==
    TabularCPD("Y",
               << <<RSub(One, pY1_A0C0(s)), RSub(One, pY1_A0C1(s)),
                    RSub(One, pY1_A1C0(s)), RSub(One, pY1_A1C1(s))>>,
                  <<pY1_A0C0(s), pY1_A0C1(s), pY1_A1C0(s), pY1_A1C1(s)>> >>,
               <<"A", "C">>)

create_statins_stroke_cpds(s) == [A |-> cpd_a, C |-> cpd_c, Y |-> cpd_y(s)]

-----------------------------------------------------------------------------
(* dgp.create_twin_error_model                                             *)

cpd_c1(base) == TabularCPD("C1", get_values(base["C"]), <<>>)

\* mutant: the duplicate's table keeps the evidence name of the original
cpd_a1_not_reindexed(base) ==
    [variable |-> "A1", values |-> base["A"].values, evidence |-> <<"C">>]

cpd_a1(base) == TabularCPD("A1", get_values(base["A"]), <<"C1">>)

cpd_y1(base) == TabularCPD("Y1", get_values(base["Y"]), <<"A1", "C1">>)

\* mutant: P(E = 0) is left at 1
cpd_e_unnormalized(e) ==
    [variable |-> "E", values |-> << <<One>>, <<e>> >>, evidence |-> <<>>]

cpd_e(e) == TabularCPD("E", << <<RSub(One, e)>>, <<e>> >>, <<>>)

\* mutant: the covariate is substituted like the treatment and the outcome
cpd_c_obs_substituted ==
    [variable |-> "C_obs",
     values |-> << <<One, Zero, One, Zero, One, One, Zero, Zero>>,
                   <<Zero, One, Zero, One, Zero, Zero, One, One>> >>,
     evidence |-> <<"E", "C1", "C">>]

cpd_c_obs ==
    TabularCPD("C_obs",
               << <<One, Zero, One, Zero, One, Zero, One, Zero>>,
                  <<Zero, One, Zero, One, Zero, One, Zero, One>> >>,
               <<"E", "C1", "C">>)

\* mutant: the columns are laid out as if the twin varied fastest
cpd_y_obs_twin_fastest ==
    [variable |-> "Y_obs",
     values |-> << <<One, One, Zero, Zero, One, Zero, One, Zero>>,
                   <<Zero, Zero, One, One, Zero, One, Zero, One>> >>,
     evidence |-> <<"E", "Y1", "Y">>]

cpd_y_obs ==
    TabularCPD("Y_obs",
               << <<One, Zero, One, Zero, One, One, Zero, Zero>>,
                  <<Zero, One, Zero, One, Zero, Zero, One, One>> >>,
               <<"E", "Y1", "Y">>)

\* mutant: the E=1 columns copy the true variable as the E=0 columns do
cpd_a_obs_never_substituted ==
    [variable |-> "A_obs",
     values |-> << <<One, Zero, One, Zero, One, Zero, One, Zero>>,
                   <<Zero, One, Zero, One, Zero, One, Zero, One>> >>,
     evidence |-> <<"E", "A1", "A">>]

cpd_a_obs ==
    TabularCPD("A_obs",
               << <<One, Zero, One, Zero, One, One, Zero, Zero>>,
                  <<Zero, One, Zero, One, Zero, Zero, One, One>> >>,
               <<"E", "A1", "A">>)

\* cpds | {...}: the right operand wins on a shared key
all_cpds(base, e) ==
    [C1 |-> cpd_c1(base), A1 |-> cpd_a1(base), Y1 |-> cpd_y1(base),
     E |-> cpd_e(e), A_obs |-> cpd_a_obs, C_obs |-> cpd_c_obs,
     Y_obs |-> cpd_y_obs] @@ base

create_twin_error_model(g, base, e) == [edges |-> g, cpds |-> all_cpds(base, e)]

NoModel == [edges |-> <<>>, cpds |-> NoCpds]

-----------------------------------------------------------------------------
(* Graph structure of a model (BayesianNetwork.add_edges_from)             *)

Nodes(edges) == {edges[i][1] : i \in DOMAIN edges} \cup {edges[i][2] : i \in DOMAIN edges}

Parents(edges, v) == {edges[i][1] : i \in {j \in DOMAIN edges : edges[j][2] = v}}

SeqRange(s) == {s[i] : i \in DOMAIN s}

\* no directed cycle: the nodes can be removed one by one, parents first
RECURSIVE Acyclic(_, _)
Acyclic(edges, left) ==
    IF left = {} THEN TRUE
    ELSE LET roots == {v \in left : Parents(edges, v) \cap left = {}}
         IN  roots # {} /\ Acyclic(edges, left \ roots)

IsDAG(edges) == Acyclic(edges, Nodes(edges))

-----------------------------------------------------------------------------
(* Exact inference (VariableElimination.query): the joint distribution of  *)
(* a model is the product of its CPDs; a query sums the other variables    *)
(* out, one variable at a time, parents before children.                   *)

EliminationOrder ==
    <<"E", "C", "C1", "C_obs", "A", "A1", "A_obs", "Y", "Y1", "Y_obs">>

OrderOf(m) == SelectSeq(EliminationOrder, LAMBDA v : v \in DOMAIN m.cpds)

RECURSIVE Eliminate(_, _, _, _)

\* P(order[i] = val | parents) times what is left of the product
Factor(m, order, i, assn, val) ==
    LET p == Prob(m.cpds[order[i]], val, assn)
        rest == Eliminate(m, order, i + 1, (order[i] :> val) @@ assn)
    IN  IF p = Zero THEN Zero
        ELSE IF rest = Zero THEN Zero
        ELSE RMul(p, rest)

Eliminate(m, order, i, assn) ==
    IF i > Len(order) THEN One
    ELSE IF order[i] \in DOMAIN assn THEN Factor(m, order, i, assn, assn[order[i]])
    ELSE LET t0 == Factor(m, order, i, assn, 0)
             t1 == Factor(m, order, i, assn, 1)
         IN  IF t0 = Zero THEN t1
             ELSE IF t1 = Zero THEN t0
             ELSE RAdd(t0, t1)

\* P(q) for an assignment q of some of the model's variables
query(m, q) == Eliminate(m, OrderOf(m), 1, q)

\* the 3-node causal model built in test_dgp.py
original_model(base) == [edges |-> << <<"C", "A">>, <<"A", "Y">>, <<"C", "Y">> >>,
                         cpds |-> base]

Bit == {0, 1}

-----------------------------------------------------------------------------
(* estimators.ipw over a sample given by its row counts                    *)

Rows == [A : Bit, C : Bit, Y : Bit]

EmptyDf == [r \in Rows |-> 0]

N(d, a, c, y) == d[[A |-> a, C |-> c, Y |-> y]]

NRows(d) == N(d,0,0,0) + N(d,0,0,1) + N(d,0,1,0) + N(d,0,1,1)
            + N(d,1,0,0) + N(d,1,0,1) + N(d,1,1,0) + N(d,1,1,1)

\* rows with treatment a
NTreatment(d, a) == N(d,a,0,0) + N(d,a,0,1) + N(d,a,1,0) + N(d,a,1,1)

\* rows of stratum c
NStratum(d, c) == N(d,0,c,0) + N(d,0,c,1) + N(d,1,c,0) + N(d,1,c,1)

\* the Logit fit of A ~ C has a finite maximum: both strata of C are present and
\* hold treated and untreated rows
LogitFits(d) ==
    \A c \in Bit : /\ N(d,1,c,0) + N(d,1,c,1) > 0
                   /\ N(d,0,c,0) + N(d,0,c,1) > 0

\* treatment_model.predict(): the fitted P(A=1 | C=c) of the saturated model
propensity_score(d, c) == Rat(N(d,1,c,0) + N(d,1,c,1), NStratum(d, c))

weight(d, c) ==
    IF propensity_score(d, c) = One
    THEN RDiv(One, propensity_score(d, c))
    ELSE RDiv(One, RSub(One, propensity_score(d, c)))

\* sum over the rows with treatment a of outcome * weight
WeightedOutcome(d, a) ==
    RAdd(RMul(Rat(N(d,a,0,1), 1), weight(d, 0)),
         RMul(Rat(N(d,a,1,1), 1), weight(d, 1)))

\* <<y0, y1>>
ipw(d) ==
    << RDiv(WeightedOutcome(d, 0), Rat(NTreatment(d, 0), 1)),
       RDiv(WeightedOutcome(d, 1), Rat(NTreatment(d, 1), 1)) >>

-----------------------------------------------------------------------------
(* Inputs                                                                  *)

SGrid == {Rat(k, SDen) : k \in (-MaxS)..MaxS}

EGrid == {Rat(k, EDen) : k \in (-1)..(EDen + 1)}

\* main.py: the keyword arguments of the driver's call
dgp_params ==
    [confounding_strength |-> Rat(2, 10), pC |-> Rat(5, 10),
     po_Y_1 |-> Rat(24, 1000), po_Y_0 |-> Rat(3, 100),
     pA1_C0 |-> Rat(2, 10), pA1_C1 |-> Rat(3, 10)]

\* the parameters create_statins_stroke_cpds declares
Signature == {"confounding_strength"}

-----------------------------------------------------------------------------
(* State machine                                                           *)

Init ==
    /\ graph = <<>>
    /\ confounding_strength = Zero
    /\ cpds = NoCpds
    /\ error_rate = Zero
    /\ model = NoModel
    /\ caller = "none"
    /\ raised = "none"
    /\ df = EmptyDf
    /\ est = <<>>

\* graph = dgp.create_twin_error_graph()
CreateTwinErrorGraph ==
    /\ graph = <<>>
    /\ graph' = create_twin_error_graph
    /\ UNCHANGED <<confounding_strength, cpds, error_rate, model, caller, raised>>
    /\ UNCHANGED estVars

\* cpds = dgp.create_statins_stroke_cpds(confounding_strength=s)   (test_dgp.py)
CreateStatinsStrokeCpds ==
    /\ graph # <<>>
    /\ caller = "none"
    /\ \E s \in SGrid :
         /\ confounding_strength' = s
         /\ cpds' = create_statins_stroke_cpds(s)
    /\ caller' = "test"
    /\ UNCHANGED <<graph, error_rate, model, raised>>
    /\ UNCHANGED estVars

\* cpds = dgp.create_statins_stroke_cpds(**dgp_params)   (main.py)
\* a keyword the function does not declare ends the call in a TypeError
MainCreateStatinsStrokeCpds ==
    /\ graph # <<>>
    /\ caller = "none"
    /\ caller' = "main"
    /\ IF DOMAIN dgp_params \subseteq Signature
       THEN /\ confounding_strength' = dgp_params.confounding_strength
            /\ cpds' = create_statins_stroke_cpds(dgp_params.confounding_strength)
            /\ UNCHANGED raised
       ELSE /\ raised' = "TypeError"
            /\ UNCHANGED <<confounding_strength, cpds>>
    /\ UNCHANGED <<graph, error_rate, model>>
    /\ UNCHANGED estVars

\* model = dgp.create_twin_error_model(graph, cpds, error_rate=e)
\* (once per error rate of the driver's grid; once per test)
CreateTwinErrorModel ==
    /\ graph # <<>>
    /\ DOMAIN cpds # {}
    /\ raised = "none"
    /\ \E e \in EGrid :
         /\ error_rate' = e
         /\ model' = create_twin_error_model(graph, cpds, e)
    /\ UNCHANGED <<graph, confounding_strength, cpds, caller, raised>>
    /\ UNCHANGED estVars

Next ==
    \/ CreateTwinErrorGraph
    \/ CreateStatinsStrokeCpds
    \/ MainCreateStatinsStrokeCpds
    \/ CreateTwinErrorModel

Spec == Init /\ [][Next]_vars

\* a row of the sample handed to ipw (pd.DataFrame(...) / model.simulate)
AddRow ==
    /\ est = <<>>
    /\ NRows(df) < MaxRows
    /\ \E r \in Rows : df' = [df EXCEPT ![r] = @ + 1]
    /\ UNCHANGED est
    /\ UNCHANGED dgpVars

\* y0, y1 = estimators.ipw(df, "A", "Y", "C")
Ipw ==
    /\ est = <<>>
    /\ LogitFits(df)
    /\ est' = ipw(df)
    /\ UNCHANGED df
    /\ UNCHANGED dgpVars

NextEst == AddRow \/ Ipw

SpecEst == Init /\ [][NextEst]_vars

-----------------------------------------------------------------------------
(* Vocabulary of the properties                                            *)

HasCpds == DOMAIN cpds # {}

HasModel == DOMAIN model.cpds # {}

\* the four derived probabilities P(Y=1 | A=a, C=c) lie in [0, 1]
ValidStrength(s) ==
    /\ IsProbability(pY1_A1C0(s))
    /\ IsProbability(pY1_A1C1(s))
    /\ IsProbability(pY1_A0C0(s))
    /\ IsProbability(pY1_A0C1(s))

ValidRate(e) == IsProbability(e)

Triple(n1, v1, n2, v2, n3, v3) == (n1 :> v1) @@ (n2 :> v2) @@ (n3 :> v3)

Pair(n1, v1, n2, v2) == (n1 :> v1) @@ (n2 :> v2)

\* P(x = y) in model m
ProbEqual(m, x, y) == RAdd(query(m, Pair(x, 0, y, 0)), query(m, Pair(x, 1, y, 1)))

\* every column of the table has two entries that sum to 1
Normalized(cpd) ==
    \A j \in DOMAIN cpd.values[1] : RAdd(cpd.values[1][j], cpd.values[2][j]) = One

\* the E = e columns of a mixing table copy the twin (pick = 2) or the true
\* variable (pick = 3) of its evidence <<E, twin, true>>
Selects(cpd, e, pick) ==
    \A tw \in Bit, tr \in Bit :
        LET assn == Triple(cpd.evidence[1], e, cpd.evidence[2], tw, cpd.evidence[3], tr)
        IN  /\ Prob(cpd, assn[cpd.evidence[pick]], assn) = One
            /\ Prob(cpd, 1 - assn[cpd.evidence[pick]], assn) = Zero

-----------------------------------------------------------------------------
(* Properties                                                              *)

\* C1: with error_rate = 0 and a valid confounding_strength, the marginal joint
\* distribution of (A_obs, C_obs, Y_obs) in the twin-error model equals, for each
\* of the 8 assignments, the joint distribution of (A, C, Y) in the 3-node causal
\* model C->A, C->Y, A->Y with the same base CPDs.
C1_ZeroErrorEquivalence ==
    (HasModel /\ error_rate = Zero /\ ValidStrength(confounding_strength)) =>
        \A a \in Bit, c \in Bit, y \in Bit :
            query(model, Triple("A_obs", a, "C_obs", c, "Y_obs", y))
                = query(original_model(cpds), Triple("A", a, "C", c, "Y", y))

C1_Witness ==
    /\ HasModel
    /\ error_rate = Zero
    /\ ValidStrength(confounding_strength)
    /\ confounding_strength # Zero
    /\ query(model, Triple("A_obs", 1, "C_obs", 0, "Y_obs", 1)) # Zero

\* C2 (as stated): with error_rate = 1 each of C_obs, A_obs, Y_obs equals its
\* duplicate (C1, A1, Y1) with probability 1, and in each of the three mixing
\* tables the four E=1 columns are the identity map on the twin variable.
C2_AllObservedEqualDuplicate ==
    (HasModel /\ error_rate = One) =>
        /\ ProbEqual(model, "C_obs", "C1") = One
        /\ ProbEqual(model, "A_obs", "A1") = One
        /\ ProbEqual(model, "Y_obs", "Y1") = One
        /\ \A n \in {"C_obs", "A_obs", "Y_obs"} : Selects(model.cpds[n], 1, 2)

\* C2 (amended): with error_rate = 1, A_obs equals A1 and Y_obs equals Y1 with
\* probability 1 and the E=1 columns of their tables are the identity map on the
\* twin variable; C_obs equals the true C with probability 1 and the E=1 columns
\* of its table are the identity map on the true variable.
C2_TreatmentOutcomeEqualDuplicate ==
    (HasModel /\ error_rate = One) =>
        /\ ProbEqual(model, "A_obs", "A1") = One
        /\ ProbEqual(model, "Y_obs", "Y1") = One
        /\ \A n \in {"A_obs", "Y_obs"} : Selects(model.cpds[n], 1, 2)
        /\ ProbEqual(model, "C_obs", "C") = One
        /\ Selects(model.cpds["C_obs"], 1, 3)

C2_Witness ==
    /\ HasModel
    /\ error_rate = One
    /\ ProbEqual(model, "A_obs", "A") # One
    /\ ProbEqual(model, "C_obs", "C1") # One

\* C6: for a valid confounding_strength and an error_rate in [0,1], every column
\* of each table produced (C, A, Y; C1, A1, Y1, E, C_obs, A_obs, Y_obs) has two
\* entries that sum to 1.
C6_Normalization ==
    /\ (HasCpds /\ ValidStrength(confounding_strength)) =>
           \A n \in DOMAIN cpds : Normalized(cpds[n])
    /\ (HasModel /\ ValidStrength(confounding_strength) /\ ValidRate(error_rate)) =>
           \A n \in DOMAIN model.cpds : Normalized(model.cpds[n])

C6_Witness ==
    /\ HasModel
    /\ ValidStrength(confounding_strength)
    /\ confounding_strength # Zero
    /\ ValidRate(error_rate)
    /\ error_rate \notin {Zero, One}
    /\ Cardinality(DOMAIN model.cpds) = 10

\* C7: for every confounding_strength and each a, the Y table satisfies
\* P(C=0) * P(Y=1|A=a,C=0) + P(C=1) * P(Y=1|A=a,C=1) = po_Y_a, with P(C=.) read
\* from the returned C table; for confounding_strength = 0 both P(Y=1|A=a,C=0)
\* and P(Y=1|A=a,C=1) equal po_Y_a.
C7_PotentialOutcomesPreserved ==
    HasCpds =>
        \A a \in Bit :
            LET po == IF a = 1 THEN po_Y_1 ELSE po_Y_0
                pY(c) == Prob(cpds["Y"], 1, Pair("A", a, "C", c))
                pc(c) == Prob(cpds["C"], c, <<>>)
            IN  /\ RAdd(RMul(pc(0), pY(0)), RMul(pc(1), pY(1))) = po
                /\ confounding_strength = Zero => (pY(0) = po /\ pY(1) = po)

C7_Witness ==
    /\ HasCpds
    /\ confounding_strength # Zero
    /\ Prob(cpds["Y"], 1, Pair("A", 1, "C", 0)) # po_Y_1

\* C8: for every error_rate in [0,1], C_obs equals the true C with probability 1
\* for every value of E and C1 (the covariate is never replaced by C1), while
\* A_obs and Y_obs copy A1 and Y1 when E = 1.
C8_CovariateAlwaysAccurate ==
    (HasModel /\ ValidRate(error_rate)) =>
        /\ \A e \in Bit : Selects(model.cpds["C_obs"], e, 3)
        /\ ProbEqual(model, "C_obs", "C") = One
        /\ Selects(model.cpds["A_obs"], 1, 2)
        /\ Selects(model.cpds["Y_obs"], 1, 2)

C8_Witness ==
    /\ HasModel
    /\ ValidRate(error_rate)
    /\ error_rate \notin {Zero, One}
    /\ query(model, Triple("E", 1, "C1", 1, "C", 0)) # Zero
    /\ ProbEqual(model, "A_obs", "A") # One

\* C9: the edge list holds 15 edges and no directed cycle; in the model every
\* node of an edge has exactly one CPD, whose evidence set is the node's parent
\* set in the edge list (C, C1 and E have empty evidence), and no CPD is attached
\* to a variable that is not a node.
C9_StructuralInvariant ==
    /\ graph # <<>> => (Len(graph) = 15 /\ IsDAG(graph))
    /\ HasModel =>
        /\ DOMAIN model.cpds = Nodes(model.edges)
        /\ \A n \in Nodes(model.edges) :
              /\ model.cpds[n].variable = n
              /\ SeqRange(model.cpds[n].evidence) = Parents(model.edges, n)
              /\ Len(model.cpds[n].evidence) = Cardinality(Parents(model.edges, n))
        /\ \A n \in {"C", "C1", "E"} : model.cpds[n].evidence = <<>>

C9_Witness ==
    /\ HasModel
    /\ Cardinality(Nodes(model.edges)) = 10
    /\ Parents(model.edges, "C_obs") = {"E", "C1", "C"}

\* main.py: the columns the driver hands to ipw
ipw_columns == [treatment |-> "A", outcome |-> "Y", confounders |-> "C"]

\* C10: for every error_rate in [0,1] the joint distribution of the columns the
\* driver hands to ipw (A, Y, C: the true triple) in the twin-error model is the
\* joint distribution of the base CPDs, so it is the same for any two error
\* rates.
C10_TrueTripleIndependentOfErrorRate ==
    (HasModel /\ ValidStrength(confounding_strength) /\ ValidRate(error_rate)) =>
        \A a \in Bit, y \in Bit, c \in Bit :
            LET q == Triple(ipw_columns.treatment, a, ipw_columns.outcome, y,
                            ipw_columns.confounders, c)
            IN  query(model, q) = query(original_model(cpds), q)

C10_Witness ==
    /\ HasModel
    /\ ValidStrength(confounding_strength)
    /\ ValidRate(error_rate)
    /\ error_rate \notin {Zero, One}
    /\ query(model, Triple("A_obs", 1, "C_obs", 1, "Y_obs", 1))
           # query(model, Triple("A", 1, "C", 1, "Y", 1))

\* C5: invalid parameters are rejected: a confounding_strength that puts a derived
\* probability outside [0,1] ends create_statins_stroke_cpds in an error with no
\* CPD returned, and an error_rate outside [0,1] ends create_twin_error_model in
\* an error with no model returned.
C5_InvalidParametersRejected ==
    /\ (caller = "test" /\ ~ValidStrength(confounding_strength)) =>
           (raised # "none" /\ ~HasCpds)
    /\ ~ValidRate(error_rate) => (raised # "none" /\ ~HasModel)

\* C4: the driver's call create_statins_stroke_cpds(**dgp_params) returns the
\* CPDs computed from the supplied values: P(C=0) = pC, P(C=1) = 1 - pC,
\* P(A=1|C=0) = pA1_C0, P(A=1|C=1) = pA1_C1.
C4_DriverCallReturnsCpds ==
    caller = "main" =>
        /\ raised = "none"
        /\ HasCpds
        /\ Prob(cpds["C"], 0, <<>>) = dgp_params.pC
        /\ Prob(cpds["C"], 1, <<>>) = RSub(One, dgp_params.pC)
        /\ Prob(cpds["A"], 1, "C" :> 0) = dgp_params.pA1_C0
        /\ Prob(cpds["A"], 1, "C" :> 1) = dgp_params.pA1_C1

\* the sample of test_estimators.py
test_df ==
    [r \in Rows |->
        IF r \in {[A |-> 0, C |-> 0, Y |-> 1], [A |-> 1, C |-> 0, Y |-> 0],
                  [A |-> 1, C |-> 0, Y |-> 1], [A |-> 1, C |-> 1, Y |-> 1]}
        THEN 1
        ELSE IF r = [A |-> 0, C |-> 1, Y |-> 0] THEN 2 ELSE 0]

\* the inverse-probability-weighted mean of the outcome under treatment a:
\* (1/n) * sum over the rows with A = a of Y / P(A = a | C)
IpwMean(d, a) ==
    LET pa(c) == IF a = 1 THEN propensity_score(d, c)
                 ELSE RSub(One, propensity_score(d, c))
    IN  RDiv(RAdd(RDiv(Rat(N(d,a,0,1), 1), pa(0)), RDiv(Rat(N(d,a,1,1), 1), pa(1))),
             Rat(NRows(d), 1))

\* C3: ipw returns y1 = (1/n) * sum over rows with A=1 of Y / P(A=1|C) and
\* y0 = (1/n) * sum over rows with A=0 of Y / (1 - P(A=1|C)); for the sample
\* A=[0,0,0,1,1,1], C=[0,1,1,0,0,1], Y=[1,0,0,0,1,1] it returns y0 = 0.5 and
\* y1 = 0.75.
C3_IpwEstimate ==
    est # <<>> =>
        /\ est[1] = IpwMean(df, 0)
        /\ est[2] = IpwMean(df, 1)
        /\ df = test_df => est = <<Rat(1, 2), Rat(3, 4)>>

====
